---- MODULE Spec2Model ----
(***************************************************************************)
(* A model of xenomapper (src/xenomapper/xenomapper.py): the tag           *)
(* extraction get_tag, the classifier get_mapping_state, the header        *)
(* annotation add_pg_tag / process_headers, and the streaming loop         *)
(* main_single_end as it is driven by main.                                *)
(*                                                                         *)
(* Text is modelled as a sequence of one-character strings, so that        *)
(* substring search, splitting, joining and number parsing are computed    *)
(* rather than assumed.  A float is a pair <<kind, n>>: a finite value     *)
(* <<"num", n>>, or one of -inf, inf, nan.                                 *)
(***************************************************************************)
EXTENDS Integers, Sequences, FiniteSets

VARIABLES call, ret,
          pc, header, binding, min_score, input, out,
          category_counts, returned, summary, error

vars == <<call, ret, pc, header, binding, min_score, input, out,
          category_counts, returned, summary, error>>

fnVars == <<call, ret>>

runVars == <<pc, header, binding, min_score, input, out,
             category_counts, returned, summary, error>>

(***************************************************************************)
(* Bounds of the model.                                                    *)
(***************************************************************************)
\* scores written in tag fields and passed to the classifier: -MaxScore..MaxScore
MaxScore == 1
\* optional tag fields per record in the function-level specification
MaxTags == 2
\* header lines per header block in the function-level specification
MaxHeader == 2
\* records consumed by one run of the streaming loop
MaxRecords == 3

(***************************************************************************)
(* Floats.                                                                 *)
(***************************************************************************)
Fin(n) == <<"num", n>>

NegInf == <<"-inf", 0>>

PosInf == <<"inf", 0>>

NaN == <<"nan", 0>>

IsFin(a) == a[1] = "num"

\* Python's a <= b on floats: false whenever either side is nan
Le(a, b) ==
    IF a = NaN \/ b = NaN THEN FALSE
    ELSE IF a = NegInf \/ b = PosInf THEN TRUE
    ELSE IF a = PosInf \/ b = NegInf THEN FALSE
    ELSE a[2] <= b[2]

\* Python's a > b on floats: false whenever either side is nan
Gt(a, b) ==
    IF a = NaN \/ b = NaN THEN FALSE
    ELSE IF a = b THEN FALSE
    ELSE IF a = PosInf \/ b = NegInf THEN TRUE
    ELSE IF a = NegInf \/ b = PosInf THEN FALSE
    ELSE a[2] > b[2]

\* Python's truth value of a float: only zero is false (inf and nan are true)
Truthy(a) == ~(IsFin(a) /\ a[2] = 0)

(***************************************************************************)
(* Results of a call: a returned value or a raised exception.              *)
(***************************************************************************)
Returned(v) == [ok |-> TRUE, v |-> v]

Raised(e) == [ok |-> FALSE, v |-> e]

(***************************************************************************)
(* Text helpers.                                                           *)
(***************************************************************************)
DigitChars == <<"0", "1", "2", "3", "4", "5", "6", "7", "8", "9">>

IsDigit(c) == \E d \in 1..Len(DigitChars) : DigitChars[d] = c

DigitVal(c) == (CHOOSE d \in 1..Len(DigitChars) : DigitChars[d] = c) - 1

RECURSIVE NatVal(_)
NatVal(s) ==
    IF s = <<>> THEN 0
    ELSE NatVal(SubSeq(s, 1, Len(s) - 1)) * 10 + DigitVal(s[Len(s)])

\* Python's `tag in x` on strings
Contains(x, tag) ==
    \E i \in 1..(Len(x) - Len(tag) + 1) : SubSeq(x, i, i + Len(tag) - 1) = tag

\* Python's x.split(':')[-1]: the text after the last ':' (all of x if none)
LastColonField(x) ==
    LET colons == {i \in 1..Len(x) : x[i] = ":"}
        last == IF colons = {} THEN 0
                ELSE CHOOSE i \in colons : \A j \in colons : j <= i
    IN SubSeq(x, last + 1, Len(x))

\* Python's float(text), for text over digits, signs and lower-case letters:
\* an optionally signed decimal integer, inf or nan; anything else raises
ParseFloat(s) ==
    LET signed == Len(s) > 0 /\ s[1] \in {"-", "+"}
        neg == Len(s) > 0 /\ s[1] = "-"
        body == IF signed THEN Tail(s) ELSE s
    IN IF Len(body) > 0 /\ \A i \in 1..Len(body) : IsDigit(body[i])
       THEN Returned(Fin(IF neg THEN 0 - NatVal(body) ELSE NatVal(body)))
       ELSE IF body = <<"i", "n", "f">>
       THEN Returned(IF neg THEN NegInf ELSE PosInf)
       ELSE IF body = <<"n", "a", "n">>
       THEN Returned(NaN)
       ELSE Raised(<<"ValueError", 0>>)

(***************************************************************************)
(* get_tag                                                                 *)
(***************************************************************************)
\* sam_line[11:] starts at the twelfth field
FirstTagField == 12

\* a variant that scans the whole line (sam_line[0:])
TagFieldsOf_WholeLine(sam_line) == sam_line

TagFieldsOf(sam_line) == SubSeq(sam_line, FirstTagField, Len(sam_line))

get_tag(sam_line, tag) ==
    LET tag_list == SelectSeq(TagFieldsOf(sam_line), LAMBDA x : Contains(x, tag))
    IN IF tag_list = <<>> THEN Returned(NegInf)
       ELSE IF Len(tag_list) > 1 THEN Raised(<<"ValueError", 0>>)
       ELSE ParseFloat(LastColonField(tag_list[1]))

(***************************************************************************)
(* get_mapping_state                                                       *)
(***************************************************************************)
\* a variant with the threshold test strict (AS1 < min_score)
get_mapping_state_StrictThreshold(AS1, XS1, min) ==
    IF Le(AS1, min) /\ AS1 # min THEN Returned("unassigned")
    ELSE IF Gt(AS1, min) \/ AS1 = min
    THEN IF ~Truthy(XS1) \/ Gt(AS1, XS1)
         THEN Returned("primary_specific")
         ELSE Returned("primary_multi")
    ELSE Raised("NameError")

\* a variant with the comparison of the two scores reversed (XS1 > AS1)
get_mapping_state_Reversed(AS1, XS1, min) ==
    IF Le(AS1, min) THEN Returned("unassigned")
    ELSE IF Gt(AS1, min)
    THEN IF ~Truthy(XS1) \/ Gt(XS1, AS1)
         THEN Returned("primary_specific")
         ELSE Returned("primary_multi")
    ELSE Raised("NameError")

get_mapping_state(AS1, XS1, min) ==
    IF Le(AS1, min) THEN Returned("unassigned")
    ELSE IF Gt(AS1, min)
    THEN IF ~Truthy(XS1) \/ Gt(AS1, XS1)
         THEN Returned("primary_specific")
         ELSE Returned("primary_multi")
    ELSE Raised("NameError")

(***************************************************************************)
(* add_pg_tag                                                              *)
(***************************************************************************)
\* Python's None; it differs from every text, whose elements are single characters
None == <<"None">>

Whitespace == {" ", "\t"}

\* Python's x[:k]
Prefix(x, k) == SubSeq(x, 1, IF k < Len(x) THEN k ELSE Len(x))

\* Python's x[k:]
Drop(x, k) == SubSeq(x, k + 1, Len(x))

RECURSIVE SplitFrom(_, _, _)
SplitFrom(s, i, cur) ==
    IF i > Len(s) THEN (IF cur = <<>> THEN <<>> ELSE <<cur>>)
    ELSE IF s[i] \in Whitespace
    THEN (IF cur = <<>> THEN <<>> ELSE <<cur>>) \o SplitFrom(s, i + 1, <<>>)
    ELSE SplitFrom(s, i + 1, Append(cur, s[i]))

\* Python's s.split(): the maximal runs of non-whitespace characters
SplitWS(s) == SplitFrom(s, 1, <<>>)

AtPG == <<"@", "P", "G">>

\* '@PG\tID:Xenomapper\tPN:Xenomapper\t'
PGLine == <<"@", "P", "G", "\t", "I", "D", ":", "X", "e", "n", "o", "m", "a", "p", "p", "e", "r", "\t", "P", "N", ":", "X", "e", "n", "o", "m", "a", "p", "p", "e", "r", "\t">>

\* 'VN:{0}'.format(__version__), __version__ = "1.0.1"
VNField == <<"V", "N", ":", "1", ".", "0", ".", "1">>

\* '@CO\t'
COLine == <<"@", "C", "O", "\t">>

add_pg_tag(sam_header_list, comment) ==
    LET new_header == sam_header_list
        n == Len(new_header)
    IN IF \E i \in 1..n : new_header[i] = <<>>
       THEN Raised("IndexError")
       ELSE IF \E i \in 1..n : new_header[i][1] # "@"
       THEN Raised("ValueError")
       ELSE IF n = 0
       THEN Raised("IndexError")
       ELSE LET ids == SelectSeq(SplitWS(new_header[n]),
                                 LAMBDA x : Prefix(x, 2) = <<"I", "D">>)
                isPG == Prefix(new_header[n], 3) = AtPG
                PP == IF isPG /\ ids # <<>>
                      THEN <<"P", "P">> \o Drop(ids[1], 2) \o <<"\t">>
                      ELSE <<>>
                withPG == Append(new_header, PGLine \o PP \o VNField)
            IN IF isPG /\ ids = <<>>
               THEN Raised("IndexError")
               ELSE IF comment # None /\ comment # <<>>
               THEN Returned(Append(withPG, COLine \o comment))
               ELSE Returned(withPG)

(***************************************************************************)
(* The per-record steps of main_single_end: both tags, then the state.     *)
(***************************************************************************)
AS == <<"A", "S">>

XS == <<"X", "S">>

classify_line(line1, min) ==
    LET AS1 == get_tag(line1, AS)
        XS1 == get_tag(line1, XS)
    IN IF ~AS1.ok THEN [ok |-> FALSE, v |-> "ValueError", AS1 |-> NaN, XS1 |-> NaN]
       ELSE IF ~XS1.ok THEN [ok |-> FALSE, v |-> "ValueError", AS1 |-> AS1.v, XS1 |-> NaN]
       ELSE LET state == get_mapping_state(AS1.v, XS1.v, min)
            IN [ok |-> state.ok, v |-> state.v, AS1 |-> AS1.v, XS1 |-> XS1.v]

(***************************************************************************)
(* Inputs of the function-level specification SpecFn.                      *)
(***************************************************************************)
Scores == {NegInf, PosInf, NaN} \cup {Fin(n) : n \in (0 - MaxScore)..MaxScore}

RECURSIVE FormatNat(_)
FormatNat(n) ==
    IF n < 10 THEN <<DigitChars[n + 1]>>
    ELSE FormatNat(n \div 10) \o <<DigitChars[(n % 10) + 1]>>

\* the decimal text of an integer, as an aligner writes it
Format(n) == IF n < 0 THEN <<"-">> \o FormatNat(0 - n) ELSE FormatNat(n)

\* an optional field NAME:i:VALUE
IntTag(name, n) == name \o <<":", "i", ":">> \o Format(n)

YS == <<"Y", "S">>

TagNames == {AS, XS, YS}

\* fields that are not integer tags: nan and inf values, and a text tag whose
\* value happens to contain "AS"
OddFields ==
    { AS \o <<":", "f", ":", "n", "a", "n">>,
      XS \o <<":", "f", ":", "n", "a", "n">>,
      XS \o <<":", "f", ":", "i", "n", "f">>,
      YS \o <<":", "Z", ":", "A", "S">> }

TagFields == {IntTag(name, n) : name \in TagNames, n \in (0 - MaxScore)..MaxScore}
             \cup OddFields

SeqsUpTo(S, n) == UNION {[1..k -> S] : k \in 0..n}

\* the eleven mandatory fields of a SAM line, for a read named qname
Mandatory(qname) ==
    <<qname, <<"0">>, <<"c">>, <<"1">>, <<"9">>, <<"2", "M">>, <<"*">>,
      <<"0">>, <<"0">>, <<"A", "C">>, <<"I", "I">>>>

\* read names: a plain one, and one that contains a tag name
QNames == {<<"r">>, AS}

\* whole lines, and lines cut short before the twelfth field
Records ==
    {Mandatory(q) \o tags : q \in QNames, tags \in SeqsUpTo(TagFields, MaxTags)}
    \cup {<<<<"r">>, t>> : t \in TagFields}

\* header lines: marked ones (two of them @PG, one without an ID field), an
\* unmarked one and an empty one
HeaderLines ==
    { <<"@", "H", "D">>,
      <<"@", "C", "O", "\t", "x">>,
      <<"@", "P", "G", "\t", "I", "D", ":", "b">>,
      <<"@", "P", "G", "\t", "P", "N", ":", "b">>,
      <<"r">>,
      <<>> }

Comments == {None, <<>>, <<"c">>}

\* thresholds tried where a whole record is classified
MinScores == {NegInf, Fin(0)}

Pending == [done |-> FALSE]

Calls ==
    {[op |-> "get_mapping_state", AS1 |-> a, XS1 |-> b, min_score |-> m] :
        a \in Scores, b \in Scores, m \in Scores}
    \cup {[op |-> "get_tag", sam_line |-> r, tag |-> t] :
        r \in Records, t \in {AS, XS}}
    \cup {[op |-> "add_pg_tag", sam_header_list |-> h, comment |-> c] :
        h \in SeqsUpTo(HeaderLines, MaxHeader), c \in Comments}
    \cup {[op |-> "classify_line", sam_line |-> r, min_score |-> m] :
        r \in Records, m \in MinScores}

(***************************************************************************)
(* The run: process_headers, then main_single_end, then output_summary.    *)
(***************************************************************************)
Categories == {"primary_specific", "primary_multi", "unassigned"}

NoDest == "None"

Streams == {"specific_out", "multi_out", "unassigned_out", "stdout"}

\* the destinations a caller can pass: primary_specific is a file, sys.stdout
\* (its default) or None; primary_multi and unassigned are a file or None
Bindings ==
    {[c \in Categories |->
        IF c = "primary_specific" THEN s
        ELSE IF c = "primary_multi" THEN m ELSE u] :
        s \in {"specific_out", "stdout", NoDest},
        m \in {"multi_out", NoDest},
        u \in {"unassigned_out", NoDest}}

CommentSpecific == <<"s", "p", "e", "c", "i", "e", "s", " ", "s", "p", "e", "c", "i", "f", "i", "c", " ", "r", "e", "a", "d", "s">>

CommentMulti == <<"s", "p", "e", "c", "i", "e", "s", " ", "s", "p", "e", "c", "i", "f", "i", "c", " ", "m", "u", "l", "t", "i", "m", "a", "p", "p", "i", "n", "g", " ", "r", "e", "a", "d", "s">>

CommentUnassigned == <<"r", "e", "a", "d", "s", " ", "t", "h", "a", "t", " ", "c", "o", "u", "l", "d", " ", "n", "o", "t", " ", "b", "e", " ", "a", "s", "s", "i", "g", "n", "e", "d">>

\* print(text, file=f), as lines appended to the stream f
Write(o, f, lines) == [o EXCEPT ![f] = @ \o lines]

\* print(..., file=None) writes to sys.stdout
PrintTarget(f) == IF f = NoDest THEN "stdout" ELSE f

\* a variant that prints the primary_multi header to primary_specific
process_headers_WrongFile(samheader1, b, o) ==
    LET h1 == add_pg_tag(samheader1, CommentSpecific)
        o1 == IF h1.ok THEN Write(o, PrintTarget(b["primary_specific"]), h1.v) ELSE o
        do2 == b["primary_multi"] # NoDest
        h2 == add_pg_tag(samheader1, CommentMulti)
        o2 == IF do2 /\ h2.ok
              THEN Write(o1, PrintTarget(b["primary_specific"]), h2.v) ELSE o1
        do3 == b["unassigned"] # NoDest
        h3 == add_pg_tag(samheader1, CommentUnassigned)
        o3 == IF do3 /\ h3.ok THEN Write(o2, b["unassigned"], h3.v) ELSE o2
    IN IF ~h1.ok THEN [ok |-> FALSE, out |-> o]
       ELSE IF do2 /\ ~h2.ok THEN [ok |-> FALSE, out |-> o1]
       ELSE IF do3 /\ ~h3.ok THEN [ok |-> FALSE, out |-> o2]
       ELSE [ok |-> TRUE, out |-> o3]

process_headers(samheader1, b, o) ==
    LET h1 == add_pg_tag(samheader1, CommentSpecific)
        o1 == IF h1.ok THEN Write(o, PrintTarget(b["primary_specific"]), h1.v) ELSE o
        do2 == b["primary_multi"] # NoDest
        h2 == add_pg_tag(samheader1, CommentMulti)
        o2 == IF do2 /\ h2.ok THEN Write(o1, b["primary_multi"], h2.v) ELSE o1
        do3 == b["unassigned"] # NoDest
        h3 == add_pg_tag(samheader1, CommentUnassigned)
        o3 == IF do3 /\ h3.ok THEN Write(o2, b["unassigned"], h3.v) ELSE o2
    IN IF ~h1.ok THEN [ok |-> FALSE, out |-> o]
       ELSE IF do2 /\ ~h2.ok THEN [ok |-> FALSE, out |-> o1]
       ELSE IF do3 /\ ~h3.ok THEN [ok |-> FALSE, out |-> o2]
       ELSE [ok |-> TRUE, out |-> o3]

RECURSIVE JoinTab(_)
\* '\t'.join(line1)
JoinTab(fields) ==
    IF fields = <<>> THEN <<>>
    ELSE IF Len(fields) = 1 THEN fields[1]
    ELSE fields[1] \o <<"\t">> \o JoinTab(Tail(fields))

\* a variant that stores 1 instead of adding 1 (category_counts[state] = 1)
Increment_Assign(counts, k) ==
    [x \in (DOMAIN counts) \cup {k} |-> IF x = k THEN 1 ELSE counts[x]]

\* Counter: category_counts[state] += 1, a missing key counting as zero
Increment(counts, k) ==
    [x \in (DOMAIN counts) \cup {k} |->
        IF x = k THEN (IF k \in DOMAIN counts THEN counts[k] + 1 ELSE 1)
        ELSE counts[x]]

\* the record headers given to the run
RunHeaders ==
    { <<>>,
      <<<<"r">>>>,
      <<<<"@", "H", "D">>>>,
      <<<<"@", "H", "D">>, <<"@", "P", "G", "\t", "I", "D", ":", "b">>>> }

\* the records given to the run: a lone AS, a tie, a tie at zero, no tags,
\* AS twice, and a nan score
RunRecords ==
    { Mandatory(<<"r">>) \o <<IntTag(AS, 1)>>,
      Mandatory(<<"r">>) \o <<IntTag(AS, 1), IntTag(XS, 1)>>,
      Mandatory(<<"r">>) \o <<IntTag(AS, 0), IntTag(XS, 0)>>,
      Mandatory(<<"r">>),
      Mandatory(<<"r">>) \o <<IntTag(AS, 1), IntTag(AS, 0)>>,
      Mandatory(<<"r">>) \o <<AS \o <<":", "f", ":", "n", "a", "n">>>> }

NoStream == [s \in Streams |-> <<>>]

NoCounts == [has |-> FALSE, counts |-> <<>>]

NoSummary == [has |-> FALSE, lines |-> <<>>]

\* sorted(category_counts): the category labels in ascending order
CategoryOrder == <<"primary_multi", "primary_specific", "unassigned">>

output_summary(counts) ==
    LET present == SelectSeq(CategoryOrder, LAMBDA c : c \in DOMAIN counts)
    IN <<<<"rule", 0>>, <<"title", 0>>, <<"columns", 0>>, <<"separator", 0>>>>
       \o [i \in 1..Len(present) |-> <<present[i], counts[present[i]]>>]
       \o <<<<"blank", 0>>>>

(***************************************************************************)
(* SpecFn: one call of one function, on every input of Calls.              *)
(***************************************************************************)
RunIdle ==
    /\ pc = "idle"
    /\ header = <<>>
    /\ binding = [c \in Categories |-> NoDest]
    /\ min_score = NegInf
    /\ input = <<>>
    /\ out = NoStream
    /\ category_counts = <<>>
    /\ returned = NoCounts
    /\ summary = NoSummary
    /\ error = "none"

InitFn ==
    /\ call \in Calls
    /\ ret = Pending
    /\ RunIdle

Call_get_tag ==
    /\ call.op = "get_tag"
    /\ ~ret.done
    /\ LET r == get_tag(call.sam_line, call.tag)
       IN ret' = [done |-> TRUE, ok |-> r.ok, v |-> r.v]
    /\ UNCHANGED <<call, runVars>>

Call_get_mapping_state ==
    /\ call.op = "get_mapping_state"
    /\ ~ret.done
    /\ LET r == get_mapping_state(call.AS1, call.XS1, call.min_score)
       IN ret' = [done |-> TRUE, ok |-> r.ok, v |-> r.v]
    /\ UNCHANGED <<call, runVars>>

Call_add_pg_tag ==
    /\ call.op = "add_pg_tag"
    /\ ~ret.done
    /\ LET r == add_pg_tag(call.sam_header_list, call.comment)
       IN ret' = [done |-> TRUE, ok |-> r.ok, v |-> r.v]
    /\ UNCHANGED <<call, runVars>>

Call_classify_line ==
    /\ call.op = "classify_line"
    /\ ~ret.done
    /\ LET r == classify_line(call.sam_line, call.min_score)
       IN ret' = [done |-> TRUE, ok |-> r.ok, v |-> r.v,
                  AS1 |-> r.AS1, XS1 |-> r.XS1]
    /\ UNCHANGED <<call, runVars>>

NextFn ==
    \/ Call_get_tag
    \/ Call_get_mapping_state
    \/ Call_add_pg_tag
    \/ Call_classify_line

SpecFn == InitFn /\ [][NextFn]_vars

(***************************************************************************)
(* Spec: a run of main.                                                    *)
(***************************************************************************)
Init ==
    /\ call = [op |-> "none"]
    /\ ret = Pending
    /\ pc = "start"
    /\ header \in RunHeaders
    /\ binding \in Bindings
    /\ min_score \in MinScores
    /\ input = <<>>
    /\ out = NoStream
    /\ category_counts = <<>>
    /\ returned = NoCounts
    /\ summary = NoSummary
    /\ error = "none"

\* process_headers(args.primary_bam, ...)
ProcessHeaders ==
    /\ pc = "start"
    /\ LET r == process_headers(header, binding, out)
       IN /\ out' = r.out
          /\ pc' = IF r.ok THEN "stream" ELSE "error"
          /\ error' = IF r.ok THEN "none" ELSE "process_headers"
    /\ UNCHANGED <<fnVars, header, binding, min_score, input,
                   category_counts, returned, summary>>

\* a variant without the `if primary_...:` guards, so that a record of an
\* unbound category is printed with file=None
route_Unguarded(o, b, state, line1) ==
    Write(o, PrintTarget(b[state]), <<JoinTab(line1)>>)

\* a variant whose primary_multi branch tests and prints to unassigned
route_WrongBranch(o, b, state, line1) ==
    LET f == IF state = "primary_multi" THEN b["unassigned"] ELSE b[state]
    IN IF f # NoDest THEN Write(o, f, <<JoinTab(line1)>>) ELSE o

\* the if/elif chain of main_single_end: the record goes to the destination
\* of its state, when there is one
route(o, b, state, line1) ==
    IF b[state] # NoDest
    THEN Write(o, b[state], <<JoinTab(line1)>>)
    ELSE o

\* a variant of the loop that catches the error of a record, counts the
\* record as unassigned and goes on
ProcessRecord_Swallow(line1) ==
    /\ pc = "stream"
    /\ Len(input) < MaxRecords
    /\ input' = Append(input, line1)
    /\ LET c == classify_line(line1, min_score)
           state == IF c.ok THEN c.v ELSE "unassigned"
       IN /\ category_counts' = Increment(category_counts, state)
          /\ out' = route(out, binding, state, line1)
    /\ UNCHANGED <<fnVars, pc, error, header, binding, min_score, returned, summary>>

\* one turn of the loop of main_single_end, on the next record line1
ProcessRecord(line1) ==
    /\ pc = "stream"
    /\ Len(input) < MaxRecords
    /\ input' = Append(input, line1)
    /\ LET c == classify_line(line1, min_score)
           state == c.v
       IN IF ~c.ok
          THEN /\ pc' = "error"
               /\ error' = "main_single_end"
               /\ UNCHANGED <<category_counts, out>>
          ELSE /\ category_counts' = Increment(category_counts, state)
               /\ IF state \in Categories
                  THEN /\ out' = route(out, binding, state, line1)
                       /\ UNCHANGED <<pc, error>>
                  ELSE /\ pc' = "error"
                       /\ error' = "main_single_end"
                       /\ UNCHANGED out
    /\ UNCHANGED <<fnVars, header, binding, min_score, returned, summary>>

\* the record source ends: main_single_end returns and main prints the summary
StreamEnds ==
    /\ pc = "stream"
    /\ returned' = [has |-> TRUE, counts |-> category_counts]
    /\ summary' = [has |-> TRUE, lines |-> output_summary(category_counts)]
    /\ pc' = "done"
    /\ UNCHANGED <<fnVars, header, binding, min_score, input, out,
                   category_counts, error>>

\* the record source ends with next(bam1) raising StopIteration inside the
\* generator getBamReadPairs, which Python 3.7 and later turn into a
\* RuntimeError in the loop of main_single_end
StreamEndRaises ==
    /\ pc = "stream"
    /\ pc' = "error"
    /\ error' = "getBamReadPairs"
    /\ UNCHANGED <<fnVars, header, binding, min_score, input, out,
                   category_counts, returned, summary>>

Next ==
    \/ ProcessHeaders
    \/ \E line1 \in RunRecords : ProcessRecord(line1)
    \/ StreamEnds
    \/ StreamEndRaises

Spec == Init /\ [][Next]_vars

(***************************************************************************)
(* Claims about single calls, checked under SpecFn.                        *)
(***************************************************************************)
IsCall(op) == call.op = op /\ ret.done

\* C1: whenever AS1 > min_score and XS1 >= AS1, get_mapping_state returns
\* 'primary_multi'; a tie is never 'primary_specific', also when XS1 is 0.
C1_TieIsMulti ==
    (IsCall("get_mapping_state")
        /\ Gt(call.AS1, call.min_score) /\ Le(call.AS1, call.XS1))
    => (ret.ok /\ ret.v = "primary_multi")

\* the fields from the twelfth on that contain the tag name
Matching(sam_line, tag) ==
    {i \in FirstTagField..Len(sam_line) : Contains(sam_line[i], tag)}

\* C2: whenever AS1 <= min_score, get_mapping_state returns 'unassigned'
\* whatever XS1 is; and a record with no AS field, classified under the
\* default threshold -inf, has best score -inf and is 'unassigned'.
C2_LowIsUnassigned ==
    /\ (IsCall("get_mapping_state") /\ Le(call.AS1, call.min_score))
        => (ret.ok /\ ret.v = "unassigned")
    /\ (IsCall("classify_line") /\ Matching(call.sam_line, AS) = {}
            /\ call.min_score = NegInf /\ get_tag(call.sam_line, XS).ok)
        => (ret.ok /\ ret.AS1 = NegInf /\ ret.v = "unassigned")

C2_Witness ==
    /\ IsCall("classify_line")
    /\ Matching(call.sam_line, AS) = {}
    /\ call.min_score = NegInf
    /\ ret.ok
    /\ IsFin(ret.XS1)
    /\ ret.v = "unassigned"

\* C3: whenever AS1 > min_score, and XS1 is absent (-inf) or AS1 > XS1,
\* get_mapping_state returns 'primary_specific'.
C3_ClearBestIsSpecific ==
    (IsCall("get_mapping_state")
        /\ Gt(call.AS1, call.min_score)
        /\ (call.XS1 = NegInf \/ Gt(call.AS1, call.XS1)))
    => (ret.ok /\ ret.v = "primary_specific")

C3_Witness ==
    /\ IsCall("get_mapping_state")
    /\ IsFin(call.AS1)
    /\ IsFin(call.min_score)
    /\ Gt(call.AS1, call.min_score)
    /\ call.XS1 = NegInf
    /\ ret.ok
    /\ ret.v = "primary_specific"

\* a comment that `if comment:` takes as given
Supplied(comment) == comment # None /\ comment # <<>>

AllMarked(lines) ==
    \A i \in 1..Len(lines) : Len(lines[i]) > 0 /\ lines[i][1] = "@"

\* C7: for every header block whose lines all begin with '@', add_pg_tag
\* returns the original lines in order, then exactly one '@PG' line, then
\* exactly one '@CO' line if and only if a comment was supplied.
C7_HeaderRoundTrip ==
    (IsCall("add_pg_tag") /\ AllMarked(call.sam_header_list))
    => /\ ret.ok
       /\ LET h == call.sam_header_list
              n == Len(h)
              extra == IF Supplied(call.comment) THEN 2 ELSE 1
          IN /\ Len(ret.v) = n + extra
             /\ SubSeq(ret.v, 1, n) = h
             /\ Prefix(ret.v[n + 1], 3) = AtPG
             /\ Supplied(call.comment) => ret.v[n + 2] = COLine \o call.comment

\* the number each numeric tag field of TagFields was written from
WrittenValue ==
    {<<IntTag(name, n), Fin(n)>> :
        name \in TagNames, n \in (0 - MaxScore)..MaxScore}
    \cup { <<AS \o <<":", "f", ":", "n", "a", "n">>, NaN>>,
           <<XS \o <<":", "f", ":", "n", "a", "n">>, NaN>>,
           <<XS \o <<":", "f", ":", "i", "n", "f">>, PosInf>> }

\* C8: get_tag looks only at the fields from index 11 on; it returns -inf
\* when none contains the tag name, the number after the last ':' when
\* exactly one does, and raises when more than one does.
C8_GetTag ==
    IsCall("get_tag") =>
        LET m == Matching(call.sam_line, call.tag)
        IN /\ m = {} => (ret.ok /\ ret.v = NegInf)
           /\ \A i \in m : \A w \in WrittenValue :
                 (m = {i} /\ call.sam_line[i] = w[1]) => (ret.ok /\ ret.v = w[2])
           /\ Cardinality(m) > 1 => ~ret.ok

C8_Witness ==
    /\ IsCall("get_tag")
    /\ call.sam_line[1] = AS
    /\ call.tag = AS
    /\ Cardinality(Matching(call.sam_line, call.tag)) = 1
    /\ ret.ok
    /\ IsFin(ret.v)
    /\ ret.v[2] < 0

(***************************************************************************)
(* Claims about a run, checked under Spec.                                 *)
(***************************************************************************)
CountOf(counts, c) == IF c \in DOMAIN counts THEN counts[c] ELSE 0

\* the records whose turn of the loop completed
Processed ==
    IF error = "main_single_end" THEN SubSeq(input, 1, Len(input) - 1) ELSE input

\* process_headers has returned
HeadersWritten == pc # "start" /\ error # "process_headers"

\* the lines of a stream after its header block
RecordLines(f) == Drop(out[f], Len(header) + 2)

\* C4: after N records have been processed the counts sum to N; each record
\* adds one to exactly one category, no count decreases, and no key other
\* than the three categories appears.
C4_CountsSumToN ==
    /\ [](/\ DOMAIN category_counts \subseteq Categories
          /\ CountOf(category_counts, "primary_specific")
               + CountOf(category_counts, "primary_multi")
               + CountOf(category_counts, "unassigned") = Len(Processed))
    /\ [][/\ \A c \in Categories :
                CountOf(category_counts', c) >= CountOf(category_counts, c)
          /\ (input' # input /\ pc' # "error") =>
                \E c \in Categories :
                    /\ CountOf(category_counts', c) = CountOf(category_counts, c) + 1
                    /\ \A d \in Categories \ {c} :
                          CountOf(category_counts', d) = CountOf(category_counts, d)]_vars

C4_Witness ==
    /\ pc = "done"
    /\ Len(input) = MaxRecords
    /\ \E c \in DOMAIN category_counts : category_counts[c] >= 2
    /\ Cardinality(DOMAIN category_counts) >= 2

\* C5: a record whose category has no destination is counted, writes no line
\* to any destination, and the loop goes on without error.
C5_UnboundCountedNotWritten ==
    [][LET line1 == input'[Len(input')]
           c == classify_line(line1, min_score)
       IN (input' # input /\ c.ok /\ binding[c.v] = NoDest) =>
             /\ CountOf(category_counts', c.v) = CountOf(category_counts, c.v) + 1
             /\ out' = out
             /\ pc' = "stream"
             /\ error' = "none"]_vars

C5_Witness ==
    /\ pc = "stream"
    /\ Len(input) >= 2
    /\ binding["primary_specific"] = NoDest
    /\ CountOf(category_counts, "primary_specific") >= 1
    /\ CountOf(category_counts, "unassigned") >= 1
    /\ binding["unassigned"] # NoDest
    /\ Len(RecordLines("unassigned_out")) >= 1

\* the processed records of category c, in input order
RecordsOf(c) ==
    SelectSeq(Processed, LAMBDA r : classify_line(r, min_score).v = c)

\* C6: the record lines of each bound destination are the input records of
\* its category, in input order, each once and tab-joined; they go nowhere
\* else.
C6_Partition ==
    HeadersWritten =>
        /\ \A c \in Categories :
              binding[c] # NoDest =>
                 LET lines == RecordLines(binding[c])
                     want == RecordsOf(c)
                 IN /\ Len(lines) = Len(want)
                    /\ \A i \in 1..Len(lines) :
                          /\ SplitWS(lines[i]) = want[i]
                          /\ Len(lines[i]) = Len(JoinTab(want[i]))
        /\ \A f \in Streams :
              (\A c \in Categories : binding[c] # f) =>
                 (out[f] = <<>> \/ (f = "stdout" /\ RecordLines(f) = <<>>))

C6_Witness ==
    /\ pc = "done"
    /\ Len(input) = MaxRecords
    /\ binding["primary_specific"] = "specific_out"
    /\ binding["primary_multi"] = "multi_out"
    /\ Len(RecordLines("specific_out")) >= 2
    /\ Len(RecordLines("multi_out")) >= 1
    /\ classify_line(input[2], min_score).v = "primary_multi"

\* the lines of a header block that are Xenomapper's program record
XenomapperLines(block) ==
    {i \in 1..Len(block) : Prefix(block[i], Len(PGLine)) = PGLine}

CommentOf(c) ==
    IF c = "primary_specific" THEN CommentSpecific
    ELSE IF c = "primary_multi" THEN CommentMulti
    ELSE CommentUnassigned

\* C9: each configured destination holds, once and before any record line,
\* the source header lines, then one Xenomapper program-record line, then
\* the comment line of its own category, whatever else is configured.
C9_HeaderPerDestination ==
    /\ pc = "start" => out = NoStream
    /\ HeadersWritten =>
          \A c \in Categories :
             binding[c] # NoDest =>
                LET n == Len(header)
                    lines == out[binding[c]]
                IN /\ Len(lines) >= n + 2
                   /\ SubSeq(lines, 1, n) = header
                   /\ XenomapperLines(SubSeq(lines, 1, n + 2)) = {n + 1}
                   /\ lines[n + 2] = COLine \o CommentOf(c)
                   /\ \A i \in (n + 3)..Len(lines) : lines[i][1] # "@"

C9_Witness ==
    /\ pc = "done"
    /\ Len(header) = 2
    /\ \A c \in Categories : binding[c] # NoDest
    /\ binding["primary_specific"] = "specific_out"
    /\ \A c \in Categories : Len(RecordLines(binding[c])) >= 1

\* C10: when get_tag or get_mapping_state raises on a record, the run stops
\* there: that record is neither counted nor written, the lines and counts of
\* the records before it stay as they were, no count table is returned and no
\* summary printed, and nothing happens afterwards.
C10_AbortAtRecord ==
    /\ [][(input' # input /\ ~classify_line(input'[Len(input')], min_score).ok) =>
             /\ pc' = "error"
             /\ out' = out
             /\ category_counts' = category_counts
             /\ ~returned'.has
             /\ ~summary'.has]_vars
    /\ [][pc # "error"]_vars

C10_Witness ==
    /\ pc = "error"
    /\ error = "main_single_end"
    /\ Len(input) = MaxRecords
    /\ \A c \in Categories : binding[c] # NoDest
    /\ Len(RecordLines(binding["primary_specific"])) >= 1
    /\ Len(RecordLines(binding["primary_multi"])) >= 1

====
